---- MODULE Spec2Model ----
(***************************************************************************)
(* Soutien: a dependency-gated callable.  GuardedFunction wraps a unit of  *)
(* work, a name and a tuple of requirements; operator() runs the work only *)
(* when every requirement reports satisfied(), and then records its own    *)
(* satisfaction.  The requirements are held BY VALUE: the constructor      *)
(* takes `Requirements... reqs` and stores them in a std::tuple, so each   *)
(* requirement is a copy of the task it was made from, taken when the      *)
(* dependent task is constructed.                                          *)
(***************************************************************************)
EXTENDS Integers, Sequences, FiniteSets, TLC

\* ---------------------------------------------------------------- bounds
MaxTasks == 3       \* tasks a program constructs
MaxDeps == 2        \* requirements of one task
MaxInvokes == 3     \* operator() calls of one run (all tasks together)
MaxCalls == 6       \* operator() calls of one run of the demonstration

\* ------------------------------------------------------------ vocabulary
NoFault == "none"
Faults == {"fault"}                 \* what a wrapped work may throw
TaskNames == <<"a", "b", "c", "d", "e">>

VARIABLES
    mName,          \* mName[t]: the task's name                 (Soutien.h:36)
    mRequirements,  \* mRequirements[t]: the copies it holds     (Soutien.h:37)
    mSatisfied,     \* mSatisfied[t]                             (Soutien.h:38)
    invoked,        \* invoked[t]: operator() calls made on t
    executed,       \* executed[t]: times mFunction() was entered
    completed,      \* completed[t]: times mFunction() returned normally
    cout,           \* the lines the most recent call wrote to std::cout
    last,           \* the most recent operation and what it saw
    log             \* the demonstration's trace of operations

vars == <<mName, mRequirements, mSatisfied, invoked, executed, completed,
          cout, last, log>>

\* The tasks constructed so far, in construction order.
Tasks == 1..Len(mName)

RECURSIVE Sum(_)
Sum(s) == IF s = <<>> THEN 0 ELSE Head(s) + Sum(Tail(s))

\* --------------------------------------------------------- pure helpers

\* The copy of task t that a dependent stores in its tuple: the copy
\* constructor duplicates mName and mSatisfied as they are now.  `src` is
\* not a field of the program: it remembers which task the copy was made of.
CopyOf(t) == [src |-> t, mName |-> mName[t], mSatisfied |-> mSatisfied[t]]

\* The character that delimits the names in a diagnostic: the grave accent
\* (backquote), written here by its code point.
Grave == "U+0060"

\* A variant of the line with the two names exchanged.
DiagnosticSwapped(depName, taskName) ==
    <<"Dependency ", Grave, taskName, Grave, " not met. Blocking ",
      Grave, depName, Grave, "\n">>

\* One diagnostic line, as the pieces streamed to std::cout.
Diagnostic(depName, taskName) ==
    <<"Dependency ", Grave, depName, Grave, " not met. Blocking ",
      Grave, taskName, Grave, "\n">>

\* Variants of the fold, each a slip the fold could contain.
\* `allMet = ...` in place of `allMet &= ...`: only the last requirement counts.
allMetLast(reqs) == reqs = <<>> \/ reqs[Len(reqs)].mSatisfied
\* `allMet |= ...` over an initial false: one met requirement opens the gate.
allMetAny(reqs) == reqs = <<>> \/ \E i \in 1..Len(reqs) : reqs[i].mSatisfied
\* `bool allMet = false`: the gate never opens.
allMetInitFalse(reqs) == reqs # reqs

\* The fold of lines 17-21: allMet &= req.satisfied() || (..., false).
\* The &= does not short-circuit, so every requirement is visited.
allMet(reqs) == \A i \in 1..Len(reqs) : reqs[i].mSatisfied

\* The lines that fold writes: one per requirement whose satisfied() is
\* false, in tuple order.
Report(reqs, taskName) ==
    LET unmet == SelectSeq(reqs, LAMBDA r : ~r.mSatisfied)
    IN  [i \in 1..Len(unmet) |-> Diagnostic(unmet[i].mName, taskName)]

\* Variants of the guarded call.
\* An "already ran" guard: if (allMet && !mSatisfied).
GuardedOnce(sat, met, fault) ==
    [ran        |-> met /\ ~sat,
     mSatisfied |-> IF met /\ ~sat /\ fault = NoFault THEN TRUE ELSE sat,
     propagated |-> IF met /\ ~sat THEN fault ELSE NoFault]
\* The flag cleared before the work runs: mSatisfied = false; mFunction(); ...
GuardedReset(sat, met, fault) ==
    [ran        |-> met,
     mSatisfied |-> IF met THEN fault = NoFault ELSE sat,
     propagated |-> IF met THEN fault ELSE NoFault]
\* The work wrapped in try { } catch (...) { }.
GuardedSwallow(sat, met, fault) ==
    [ran        |-> met,
     mSatisfied |-> IF met /\ fault = NoFault THEN TRUE ELSE sat,
     propagated |-> NoFault]

\* The two statements exchanged: mSatisfied = true; mFunction();
GuardedEarly(sat, met, fault) ==
    [ran        |-> met,
     mSatisfied |-> IF met THEN TRUE ELSE sat,
     propagated |-> IF met THEN fault ELSE NoFault]

\* Lines 23-26: if (allMet) { mFunction(); mSatisfied = true; }
\* `fault` is what mFunction() throws on this call (NoFault: it returns).
Guarded(sat, met, fault) ==
    [ran        |-> met,
     mSatisfied |-> IF met /\ fault = NoFault THEN TRUE ELSE sat,
     propagated |-> IF met THEN fault ELSE NoFault]

\* ------------------------------------------------------------------ Init
NoOp == [op |-> "none", task |-> 0, depSat |-> <<>>, satBefore |-> FALSE,
         executedBefore |-> 0, ran |-> FALSE, thrown |-> NoFault,
         propagated |-> NoFault, returned |-> "void"]

Init ==
    /\ mName = <<>>
    /\ mRequirements = <<>>
    /\ mSatisfied = <<>>
    /\ invoked = <<>>
    /\ executed = <<>>
    /\ completed = <<>>
    /\ cout = <<>>
    /\ last = NoOp
    /\ log = <<>>

\* --------------------------------------------------------------- actions

\* createGuardedFunction(f, name, deps...): the new task stores a copy of
\* each dependency; nothing is executed.
Construct(name, deps) ==
    /\ mName' = Append(mName, name)
    /\ mRequirements' = Append(mRequirements,
                               [i \in 1..Len(deps) |-> CopyOf(deps[i])])
    /\ mSatisfied' = Append(mSatisfied, FALSE)
    /\ invoked' = Append(invoked, 0)
    /\ executed' = Append(executed, 0)
    /\ completed' = Append(completed, 0)
    /\ cout' = <<>>
    /\ last' = [NoOp EXCEPT !.op = "Construct", !.task = Len(mName) + 1]

\* A variant of operator(): mSatisfied declared static, one flag for all tasks.
InvokeStatic(t, fault) ==
    LET reqs == mRequirements[t]
        met  == allMet(reqs)
        g    == Guarded(mSatisfied[t], met, fault)
    IN  /\ cout' = Report(reqs, mName[t])
        /\ mSatisfied' = [u \in DOMAIN mSatisfied |-> g.mSatisfied]
        /\ invoked' = [invoked EXCEPT ![t] = @ + 1]
        /\ executed' = [executed EXCEPT ![t] = IF g.ran THEN @ + 1 ELSE @]
        /\ completed' = [completed EXCEPT
                           ![t] = IF g.ran /\ fault = NoFault THEN @ + 1 ELSE @]
        /\ last' = [op |-> "Invoke", task |-> t,
                    depSat |-> [i \in 1..Len(reqs) |-> mSatisfied[reqs[i].src]],
                    satBefore |-> mSatisfied[t],
                    executedBefore |-> executed[t],
                    ran |-> g.ran,
                    thrown |-> IF g.ran THEN fault ELSE NoFault,
                    propagated |-> g.propagated,
                    returned |-> "void"]
        /\ UNCHANGED <<mName, mRequirements>>

\* operator()() of task t, whose wrapped work throws `fault` if it runs.
Invoke(t, fault) ==
    LET reqs == mRequirements[t]
        met  == allMet(reqs)
        g    == Guarded(mSatisfied[t], met, fault)
    IN  /\ cout' = Report(reqs, mName[t])
        /\ mSatisfied' = [mSatisfied EXCEPT ![t] = g.mSatisfied]
        /\ invoked' = [invoked EXCEPT ![t] = @ + 1]
        /\ executed' = [executed EXCEPT ![t] = IF g.ran THEN @ + 1 ELSE @]
        /\ completed' = [completed EXCEPT
                           ![t] = IF g.ran /\ fault = NoFault THEN @ + 1 ELSE @]
        /\ last' = [op |-> "Invoke", task |-> t,
                    depSat |-> [i \in 1..Len(reqs) |-> mSatisfied[reqs[i].src]],
                    satBefore |-> mSatisfied[t],
                    executedBefore |-> executed[t],
                    ran |-> g.ran,
                    thrown |-> IF g.ran THEN fault ELSE NoFault,
                    propagated |-> g.propagated,
                    returned |-> "void"]
        /\ UNCHANGED <<mName, mRequirements>>

\* Variants of the accessors.
\* A name() that answers for the first requirement rather than for the task.
nameOfFirst(t) ==
    IF mRequirements[t] = <<>> THEN mName[t] ELSE mRequirements[t][1].mName

\* Line 30: const char* name() const { return mName; }
name(t) == mName[t]

\* Line 29: bool satisfied() const { return mSatisfied; }
satisfied(t) == mSatisfied[t]

\* The program state a const member function cannot touch; a read also
\* writes nothing to std::cout.
ReadOnly ==
    /\ cout' = <<>>
    /\ UNCHANGED <<mName, mRequirements, mSatisfied, invoked, executed,
                   completed>>

\* A caller reads t.name().
Name(t) ==
    /\ last' = [NoOp EXCEPT !.op = "Name", !.task = t, !.returned = name(t)]
    /\ ReadOnly

\* A caller reads t.satisfied().
Satisfied(t) ==
    /\ last' = [NoOp EXCEPT !.op = "Satisfied", !.task = t,
                             !.returned = satisfied(t)]
    /\ ReadOnly

\* The dependency lists a new task may be given: existing tasks, each at
\* most once, at most MaxDeps of them, in any order.
DepLists ==
    {s \in UNION {[1..k -> Tasks] : k \in 0..MaxDeps} :
        \A i, j \in DOMAIN s : i # j => s[i] # s[j]}

NewTask ==
    /\ Len(mName) < MaxTasks
    /\ \E deps \in DepLists : Construct(TaskNames[Len(mName) + 1], deps)
    /\ UNCHANGED log

Call ==
    /\ Sum(invoked) < MaxInvokes
    /\ \E t \in Tasks : \E fault \in {NoFault} \cup Faults : Invoke(t, fault)
    /\ UNCHANGED log

Read ==
    /\ \E t \in Tasks : Name(t) \/ Satisfied(t)
    /\ UNCHANGED log

Next == NewTask \/ Call \/ Read

Spec == Init /\ [][Next]_vars

\* ------------------------------------------------ the demonstration, main()
\* main.cpp declares a, b, c on (a, b) and d on (c), in that order; its
\* lambdas only print, so they never throw.  A run interleaves those
\* declarations with calls of the tasks declared so far.
DemoDeps == << <<>>, <<>>, <<1, 2>>, <<3>> >>

DemoDeclare ==
    /\ Len(mName) < Len(DemoDeps)
    /\ Construct(TaskNames[Len(mName) + 1], DemoDeps[Len(mName) + 1])
    /\ log' = Append(log, <<"new", Len(mName) + 1>>)

DemoCall ==
    /\ Sum(invoked) < MaxCalls
    /\ \E t \in Tasks : Invoke(t, NoFault) /\ log' = Append(log, <<"call", t>>)

NextDemo == DemoDeclare \/ DemoCall

SpecDemo == Init /\ [][NextDemo]_vars

\* ================================================================ claims
\* What the most recent operation was, for the properties below.
IsInvoke == last.op = "Invoke"
SomeDepUnsatisfied == \E i \in DOMAIN last.depSat : ~last.depSat[i]
AllDepsSatisfied == \A i \in DOMAIN last.depSat : last.depSat[i]
DemoCalled(t) == \E i \in DOMAIN log : log[i] = <<"call", t>>

\* C1: an Invoke() made while at least one dependency of the task is not
\* Satisfied does not execute the wrapped work (the execution count is the
\* one before the call) and leaves the task's Satisfied() false.
C1_BlockedWhileUnmet ==
    (IsInvoke /\ SomeDepUnsatisfied) =>
        /\ ~last.ran
        /\ executed[last.task] = last.executedBefore
        /\ ~mSatisfied[last.task]

\* C1 witness: a call with one dependency satisfied and another not.
C1_Witness ==
    /\ IsInvoke
    /\ \E i, j \in DOMAIN last.depSat : last.depSat[i] /\ ~last.depSat[j]
    /\ cout # <<>>

\* C2: an Invoke() made while every dependency of the task is Satisfied
\* executes the wrapped work exactly once and leaves Satisfied() true
\* (stated for calls whose work, if run, returns normally).
C2_RunsWhenAllSatisfied ==
    (IsInvoke /\ AllDepsSatisfied /\ last.thrown = NoFault) =>
        /\ executed[last.task] = last.executedBefore + 1
        /\ mSatisfied[last.task]

\* C3: Invoke() reads the dependencies as they are at the call: a task built
\* on a dependency that was Unsatisfied at its construction runs and becomes
\* Satisfied once that dependency (and every other one) has become Satisfied.
C3_ReadsAtCallTime ==
    (/\ IsInvoke
     /\ \E i \in DOMAIN mRequirements[last.task] :
            ~mRequirements[last.task][i].mSatisfied
     /\ AllDepsSatisfied
     /\ last.thrown = NoFault) =>
        /\ last.ran
        /\ mSatisfied[last.task]

\* C4: with a, b, c on (a, b) and d on (c) all constructed before any call,
\* the calls a, c, d, b, c, d end with c and d executed and b, c, d Satisfied.
C4_Script ==
    <<<<"new", 1>>, <<"new", 2>>, <<"new", 3>>, <<"new", 4>>,
      <<"call", 1>>, <<"call", 3>>, <<"call", 4>>,
      <<"call", 2>>, <<"call", 3>>, <<"call", 4>>>>

C4_TransitiveCompletion ==
    (log = C4_Script) =>
        /\ executed[3] >= 1
        /\ executed[4] >= 1
        /\ mSatisfied[2] /\ mSatisfied[3] /\ mSatisfied[4]

\* C5: with a, b, c on (a, b) and d on (c), while a has been called and b has
\* not, a call of c executes nothing and leaves c Unsatisfied, and so does a
\* call of d.
C5_TransitiveBlocking ==
    (IsInvoke /\ DemoCalled(1) /\ ~DemoCalled(2) /\ last.task \in {3, 4}) =>
        /\ ~last.ran
        /\ executed[last.task] = last.executedBefore
        /\ ~mSatisfied[last.task]
        /\ cout # <<>>

\* C5 witness: a was called, b was not, c was called and then d.
C5_Witness ==
    /\ DemoCalled(1) /\ ~DemoCalled(2)
    /\ Len(log) >= 2
    /\ log[Len(log) - 1] = <<"call", 3>>
    /\ log[Len(log)] = <<"call", 4>>
    /\ mRequirements[3][1].mSatisfied

\* C6: a task's satisfied flag never goes from true to false, whatever
\* operation happens.
C6_NeverResets ==
    [][\A t \in Tasks : mSatisfied[t] => mSatisfied'[t]]_vars

\* C6 witness: a Satisfied task was called again, its work threw, and it is
\* still Satisfied.
C6_Witness ==
    /\ IsInvoke
    /\ last.satBefore
    /\ last.thrown # NoFault
    /\ mSatisfied[last.task]

\* C7 as stated: every Invoke() of a task with no dependencies executes the
\* wrapped work, emits no diagnostic and leaves Satisfied() true.
C7_AsStated ==
    (IsInvoke /\ mRequirements[last.task] = <<>>) =>
        /\ last.ran
        /\ cout = <<>>
        /\ mSatisfied[last.task]

\* C7 amended: every Invoke() of a task with no dependencies executes the
\* wrapped work and emits no diagnostic; it leaves Satisfied() true when the
\* work returns normally, and as it was before the call when the work throws.
C7_ZeroDependencies ==
    (IsInvoke /\ mRequirements[last.task] = <<>>) =>
        /\ last.ran
        /\ executed[last.task] = last.executedBefore + 1
        /\ cout = <<>>
        /\ (last.thrown = NoFault => mSatisfied[last.task])
        /\ (last.thrown # NoFault => mSatisfied[last.task] = last.satBefore)

\* C7 witness: a repeated call of a task with no dependencies.
C7_Witness ==
    /\ IsInvoke
    /\ mRequirements[last.task] = <<>>
    /\ invoked[last.task] >= 2
    /\ mSatisfied[last.task]

\* C8: the task's own flag is no input of its gate: a call of a Satisfied
\* task whose gate passes executes the work again, and a task with no
\* dependencies has executed its work exactly as often as it was called.
C8_NotIdempotent ==
    /\ \A t \in Tasks :
          mRequirements[t] = <<>> => executed[t] = invoked[t]
    /\ (IsInvoke /\ last.satBefore /\ allMet(mRequirements[last.task])) =>
          executed[last.task] = last.executedBefore + 1

\* C8 witness: two calls of a task with no dependencies, two executions.
C8_Witness ==
    \E t \in Tasks :
        /\ mRequirements[t] = <<>>
        /\ invoked[t] = 2
        /\ executed[t] = 2

\* C9: one Invoke() emits exactly one diagnostic for each dependency that is
\* unsatisfied at that call, in dependency-list order, naming the dependency
\* and the blocked task, and none for a satisfied dependency.
C9_Expected ==
    LET t     == last.task
        reqs  == mRequirements[t]
        unmet == SelectSeq([i \in 1..Len(reqs) |-> i],
                           LAMBDA i : ~last.depSat[i])
    IN  [k \in 1..Len(unmet) |->
            Diagnostic(mName[reqs[unmet[k]].src], mName[t])]

C9_DiagnosticCompleteness == IsInvoke => cout = C9_Expected

\* C10 as stated: when the wrapped work raises a fault, the fault reaches the
\* caller unmodified and the task's satisfied flag is false after the call.
C10_AsStated ==
    (IsInvoke /\ last.thrown # NoFault) =>
        /\ last.propagated = last.thrown
        /\ ~mSatisfied[last.task]

\* C10 amended: when the wrapped work raises a fault, the fault reaches the
\* caller unmodified and the task's satisfied flag is after the call what it
\* was before it: false for a task that was Unsatisfied, true for one that
\* an earlier call had Satisfied.
C10_FaultPropagates ==
    (IsInvoke /\ last.thrown # NoFault) =>
        /\ last.propagated = last.thrown
        /\ mSatisfied[last.task] = last.satBefore

\* C10 witness: the work of an Unsatisfied task threw.
C10_Witness ==
    /\ IsInvoke
    /\ last.thrown # NoFault
    /\ last.propagated # NoFault
    /\ ~last.satBefore

\* C11: Name() returns exactly the string supplied at construction, in every
\* reachable state: no Invoke(), Satisfied() or Name() call changes a name.
C11_NameIsConstructionName ==
    /\ \A t \in Tasks : mName[t] = TaskNames[t]
    /\ (last.op = "Name") => last.returned = TaskNames[last.task]

\* C11 witness: Name() read on a task that has requirements, after calls
\* were made.
C11_Witness ==
    /\ last.op = "Name"
    /\ mRequirements[last.task] # <<>>
    /\ Sum(invoked) >= 2
    /\ last.returned = TaskNames[last.task]

\* The line format with a given delimiter, and the apostrophe.
Apostrophe == "U+0027"
C12_Line(q, depName, taskName) ==
    <<"Dependency ", q, depName, q, " not met. Blocking ", q, taskName, q, "\n">>

\* The requirements of the task just called that its gate found unmet.
C12_Unmet ==
    SelectSeq(mRequirements[last.task], LAMBDA r : ~r.mSatisfied)

\* C12 as stated: each diagnostic is exactly the line
\* Dependency '<dep-name>' not met. Blocking '<task-name>', the names
\* delimited by apostrophes, the dependency's first.
C12_AsStated ==
    IsInvoke =>
        /\ Len(cout) = Len(C12_Unmet)
        /\ \A k \in DOMAIN cout :
              cout[k] = C12_Line(Apostrophe, C12_Unmet[k].mName,
                                 mName[last.task])

\* C12 amended: each diagnostic is exactly the line
\* Dependency <q><dep-name><q> not met. Blocking <q><task-name><q> followed
\* by a newline, where <q> is the grave accent (backquote, U+0060), with the
\* dependency's name first and the blocked task's name second.
C12_DiagnosticFormat ==
    IsInvoke =>
        /\ Len(cout) = Len(C12_Unmet)
        /\ \A k \in DOMAIN cout :
              cout[k] = C12_Line(Grave, C12_Unmet[k].mName, mName[last.task])

\* C12 witness: a blocked call that wrote a line.
C12_Witness ==
    /\ IsInvoke
    /\ Len(cout) >= 1
    /\ cout[1][3] # cout[1][7]

\* C13: a task's satisfied flag, name and execution count change only in
\* that task's own Invoke(); Satisfied() and Name() change no state at all.
C13_Frame ==
    [][/\ \A u \in Tasks :
            ~(last'.op = "Invoke" /\ last'.task = u) =>
                /\ mSatisfied'[u] = mSatisfied[u]
                /\ mName'[u] = mName[u]
                /\ executed'[u] = executed[u]
                /\ completed'[u] = completed[u]
       /\ last'.op \in {"Name", "Satisfied"} =>
                /\ UNCHANGED <<mName, mRequirements, mSatisfied, executed,
                               completed>>
                /\ cout' = <<>>]_vars

\* C13 witness: a call ran one task while another task is Satisfied and a
\* third is not.
C13_Witness ==
    /\ IsInvoke
    /\ last.ran
    /\ \E u, w \in Tasks \ {last.task} : mSatisfied[u] /\ ~mSatisfied[w]

\* C14: when the wrapped work raises a fault, the satisfied flag is after the
\* call what it was before, nothing is written to the diagnostic channel,
\* the fault is not caught and the work is not run a second time.
C14_FaultRecordsNothing ==
    (IsInvoke /\ last.thrown # NoFault) =>
        /\ mSatisfied[last.task] = last.satBefore
        /\ cout = <<>>
        /\ last.propagated = last.thrown
        /\ executed[last.task] = last.executedBefore + 1
        /\ completed[last.task] < executed[last.task]

\* C14 witness: the work of an Unsatisfied task with met requirements threw.
C14_Witness ==
    /\ IsInvoke
    /\ last.thrown # NoFault
    /\ mRequirements[last.task] # <<>>
    /\ ~mSatisfied[last.task]

\* C15: a blocked Invoke() returns normally, and after an Invoke() that
\* returns normally Satisfied() is true exactly if the work ran in that call.
C15_SatisfiedTellsExecution ==
    IsInvoke =>
        /\ (~last.ran => last.propagated = NoFault)
        /\ (last.propagated = NoFault =>
                (satisfied(last.task) <=> last.ran))

\* C15 witness: a blocked call that returned normally.
C15_Witness ==
    /\ IsInvoke
    /\ ~last.ran
    /\ last.propagated = NoFault
    /\ ~satisfied(last.task)
    /\ invoked[last.task] >= 2

\* C16: a task is Satisfied exactly if its wrapped work has completed
\* normally at least once; a task just constructed is Unsatisfied and has
\* executed nothing.
C16_SatisfiedIffCompleted ==
    /\ \A t \in Tasks : mSatisfied[t] <=> completed[t] >= 1
    /\ (last.op = "Construct") =>
          /\ ~mSatisfied[last.task]
          /\ executed[last.task] = 0
          /\ completed[last.task] = 0
          /\ cout = <<>>

\* C16 witness: one task's work has only ever thrown, another's completed.
C16_Witness ==
    \E t, u \in Tasks :
        /\ executed[t] >= 1 /\ completed[t] = 0 /\ ~mSatisfied[t]
        /\ completed[u] >= 1 /\ mSatisfied[u]

\* C17: if a task is Satisfied, every task it was constructed to depend on
\* is Satisfied.
C17_DownwardClosed ==
    \A t \in Tasks :
        mSatisfied[t] =>
            \A i \in DOMAIN mRequirements[t] :
                mSatisfied[mRequirements[t][i].src]

\* C17 witness: a Satisfied task with two dependencies.
C17_Witness ==
    \E t \in Tasks : mSatisfied[t] /\ Len(mRequirements[t]) >= 2

\* C18: for every dependency D of a task T, T's execution count is 0 in
\* every state where D's work has not executed (or not completed).
C18_ExecutionOrder ==
    \A t \in Tasks :
        \A i \in DOMAIN mRequirements[t] :
            LET d == mRequirements[t][i].src
            IN  (executed[d] = 0 \/ completed[d] = 0) => executed[t] = 0

\* C18 witness: a task with a dependency has executed.
C18_Witness ==
    \E t \in Tasks : mRequirements[t] # <<>> /\ executed[t] >= 1

\* C19 concerns a task that depends on itself, directly or through a cycle.
\* No such task is reachable: a requirement is a copy of a task that already
\* exists when its dependent is constructed, so every dependency precedes
\* its dependent in construction order.
C19_DependenciesPrecede ==
    \A t \in Tasks :
        \A i \in DOMAIN mRequirements[t] : mRequirements[t][i].src < t

====
